---------------------------- MODULE Spec2Model ----------------------------
(***************************************************************************)
(* FinAgent (src/app.py): a Streamlit page with a chat tab and a dashboard *)
(* tab.  An uploaded document is posted to an extraction webhook; after an *)
(* accepted upload the dashboard polls the transaction endpoint until the  *)
(* row count grows past a baseline or ten attempts are used up.            *)
(*                                                                         *)
(* Execution model (Streamlit): a user interaction first runs the widget's *)
(* on_change callback, then the script from top to bottom; st.rerun()      *)
(* abandons the running script and starts it again.  One interaction is    *)
(* served at a time per session.  The polling loop sleeps between          *)
(* attempts, so the remote store can change between two attempts: the loop *)
(* is therefore modelled one attempt per step.                             *)
(***************************************************************************)
EXTENDS Integers, Sequences, FiniteSets, TLC

VARIABLES
    page,            \* st.session_state.page
    messages,        \* st.session_state.messages
    is_processing,   \* st.session_state.is_processing (absent reads as False)
    upload_success,  \* st.session_state.upload_success: "unset" when absent
    row_count,       \* st.session_state.row_count: NoRowCount when absent
    cache,           \* the single entry of @st.cache_data(ttl=60) on load_data_from_bin
    store,           \* number of records the remote transaction endpoint returns now
    pc,              \* "idle": waiting for the user; "run": a script run is due; "poll": inside the polling loop
    i,               \* loop variable of `for i in range(10)`
    shown,           \* what the current script run has put on the page
    watcher,         \* position of the polling code: Idle, Polling, Resolved, TimedOut
    results,         \* len(df) seen by each attempt of the current polling run
    poll_obs,        \* how the last polling attempt got its data
    baseline_obs,    \* how the last accepted upload got its baseline
    event,           \* the interaction the current pass serves
    reply,           \* last return value of get_chat_response_from_n8n
    df_mom,          \* the transactions the month-over-month section works on
    mom,             \* outcome of the month-over-month section
    mom_defaults     \* whether that outcome is for the select boxes left at their defaults

vars == << page, messages, is_processing, upload_success, row_count, cache,
           store, pc, i, shown, watcher, results, poll_obs, baseline_obs,
           event, reply, df_mom, mom, mom_defaults >>

sessionVars == << page, messages, is_processing, upload_success, row_count >>
momVars     == << df_mom, mom, mom_defaults >>
pollVars    == << i, watcher, results, poll_obs >>

-----------------------------------------------------------------------------
(* Bounds of the model *)

MaxStore == 2        \* the remote store holds 0..MaxStore records
MaxTick  == 3        \* longest idle time between two interactions, in sleep lengths
MaxMsgs  == 5        \* chat history length up to which a message may be sent

(* Program constants *)

TTL          == 60   \* @st.cache_data(ttl=60)
MaxAttempts  == 10   \* for i in range(10)
SleepSeconds == 5    \* time.sleep(5)
HTTP_OK      == 200  \* response.status_code == 200

NoRowCount == -1     \* row_count not yet in the session state

-----------------------------------------------------------------------------
(* The data fetcher: load_data_from_bin under @st.cache_data(ttl=60).      *)
(* The function catches its own exceptions and returns an empty frame, so  *)
(* a failed fetch is a normal return and is cached like any other.         *)

EmptyCache == [valid |-> FALSE, count |-> 0, age |-> 0, ok |-> FALSE]

\* st.cache_data.clear()
cache_clear == EmptyCache

\* The entry is served while it is younger than the ttl.
CacheHit(c) == c.valid /\ c.age < TTL

\* The body of load_data_from_bin: `ok` is whether the GET and its JSON
\* decoding succeed; the length of the returned frame.
fetch_len(ok, st) == IF ok THEN st ELSE 0

\* len(load_data_from_bin()) and the cache after the call.
load_data_from_bin(c, ok, st) ==
    IF CacheHit(c)
    THEN [count |-> c.count, hit |-> TRUE, ok |-> c.ok, cache |-> c]
    ELSE [count |-> fetch_len(ok, st), hit |-> FALSE, ok |-> ok,
          cache |-> [valid |-> TRUE, count |-> fetch_len(ok, st), age |-> 0, ok |-> ok]]

\* Time passing: an entry that has reached the ttl is gone for good.
Aged(c, d) == IF c.valid /\ c.age + d < TTL
              THEN [c EXCEPT !.age = c.age + d]
              ELSE EmptyCache

Obs(by, r, st) == [by |-> by, hit |-> r.hit, ok |-> r.ok, count |-> r.count, store |-> st]
NoObs == [by |-> "none", hit |-> FALSE, ok |-> FALSE, count |-> 0, store |-> 0]

\* Every interaction and every script run starts with the polling code not
\* yet reached.
ResetWatcher ==
    /\ i' = 0
    /\ watcher' = "Idle"
    /\ results' = << >>
    /\ poll_obs' = NoObs

-----------------------------------------------------------------------------
(* The upload coordinator *)

StatusCodes == {200, 201, 500}

\* What requests.post does: it raises, or it returns a response with a status.
UploadOutcomes == {[raised |-> TRUE, status_code |-> 0]}
                  \cup {[raised |-> FALSE, status_code |-> s] : s \in StatusCodes}

\* The upload with the exception handler answering True.
send_file_to_n8n_ExceptTrue(resp) ==
    IF resp.raised THEN TRUE ELSE resp.status_code = HTTP_OK

send_file_to_n8n(resp) ==
    IF resp.raised THEN FALSE ELSE resp.status_code = HTTP_OK

\* The interaction being served: its kind, for an upload the file, the
\* service's answer and what send_file_to_n8n returned, and the page it was
\* made on.
NoEvent == [kind |-> "none", file |-> FALSE, resp |-> [raised |-> FALSE, status_code |-> 0],
            accepted |-> FALSE, page |-> "Chat"]

\* The callback without the switch to the Dashboard page.
handle_file_upload_NoPageSwitch(file, resp, ok) ==
    /\ pc = "idle"
    /\ pc' = "run"
    /\ IF file
       THEN /\ event' = [kind |-> "upload", file |-> TRUE, resp |-> resp,
                         accepted |-> send_file_to_n8n(resp), page |-> page]
            /\ IF send_file_to_n8n(resp)
               THEN LET r == load_data_from_bin(cache, ok, store) IN
                    /\ is_processing' = TRUE
                    /\ upload_success' = "True"
                    /\ cache' = r.cache
                    /\ row_count' = r.count
                    /\ baseline_obs' = Obs("upload", r, store)
                    /\ UNCHANGED page
               ELSE /\ upload_success' = "False"
                    /\ UNCHANGED << is_processing, cache, row_count, baseline_obs, page >>
       ELSE /\ event' = [NoEvent EXCEPT !.kind = "upload", !.page = page]
            /\ UNCHANGED << is_processing, upload_success, cache,
                            row_count, baseline_obs, page >>
    /\ ResetWatcher
    /\ UNCHANGED << messages, store, shown, reply, momVars >>

\* on_change callback of the file uploader.  `file` is FALSE when the widget
\* was cleared (uploaded_file is None).
handle_file_upload(file, resp, ok) ==
    /\ pc = "idle"
    /\ pc' = "run"
    /\ IF file
       THEN /\ event' = [kind |-> "upload", file |-> TRUE, resp |-> resp,
                         accepted |-> send_file_to_n8n(resp), page |-> page]
            /\ IF send_file_to_n8n(resp)
               THEN LET r == load_data_from_bin(cache, ok, store) IN
                    /\ is_processing' = TRUE
                    /\ upload_success' = "True"
                    /\ cache' = r.cache
                    /\ row_count' = r.count
                    /\ baseline_obs' = Obs("upload", r, store)
                    /\ page' = "Dashboard"
               ELSE /\ upload_success' = "False"
                    /\ UNCHANGED << is_processing, cache, row_count, baseline_obs, page >>
       ELSE /\ event' = [NoEvent EXCEPT !.kind = "upload", !.page = page]
            /\ UNCHANGED << is_processing, upload_success, cache,
                            row_count, baseline_obs, page >>
    /\ ResetWatcher
    /\ UNCHANGED << messages, store, shown, reply, momVars >>

\* on_change callback of the navigation radio.
page_select_callback(p) ==
    /\ pc = "idle"
    /\ p # page
    /\ page' = p
    /\ pc' = "run"
    /\ event' = [NoEvent EXCEPT !.kind = "nav", !.page = page]
    /\ ResetWatcher
    /\ UNCHANGED << messages, is_processing, upload_success, row_count, cache,
                    store, shown, reply, baseline_obs, momVars >>

-----------------------------------------------------------------------------
(* The script run: main page logic *)

\* The Chat branch without a submitted message: the history is displayed.
RunChat ==
    /\ pc = "run"
    /\ page = "Chat"
    /\ shown' = {"chat_history"}
    /\ pc' = "idle"
    /\ event' = NoEvent
    /\ ResetWatcher
    /\ UNCHANGED << sessionVars, cache, store, reply, baseline_obs, momVars >>

\* "Show upload status messages": what is displayed for the pending status.
UploadStatusMessage(us) ==
    IF us = "unset" THEN {}
    ELSE IF us = "True" THEN {"upload_sent"} ELSE {"upload_failed"}

\* "Display the dashboard": what the final load puts on the page.
DashboardBody(count) == IF count = 0 THEN {"no_data"} ELSE {"dashboard"}

\* st.session_state.get("row_count", 0)
initial_row_count == IF row_count = NoRowCount THEN 0 ELSE row_count

\* The Dashboard branch up to the polling loop, and to its end when no
\* upload is being processed.
RunDashboard(ok) ==
    /\ pc = "run"
    /\ page = "Dashboard"
    /\ upload_success' = "unset"
    /\ IF is_processing
       THEN /\ shown' = {"title"} \cup UploadStatusMessage(upload_success)
                        \cup {"processing_info"}
            /\ pc' = "poll"
            /\ i' = 0
            /\ watcher' = "Polling"
            /\ results' = << >>
            /\ poll_obs' = NoObs
            /\ UNCHANGED << cache, event >>
       ELSE LET r == load_data_from_bin(cache, ok, store) IN
            /\ shown' = {"title"} \cup UploadStatusMessage(upload_success)
                        \cup DashboardBody(r.count)
            /\ cache' = r.cache
            /\ pc' = "idle"
            /\ event' = NoEvent
            /\ ResetWatcher
    /\ UNCHANGED << page, messages, is_processing, row_count, store,
                    reply, baseline_obs, momVars >>

\* The growth test with an equal count taken for growth.
Grew_OrEqual(count, baseline) == count >= baseline

\* The growth test of the loop body.
Grew(count, baseline) == count > baseline

\* One pass through the body of `for i in range(10)`.
PollAttempt(ok) ==
    /\ pc = "poll"
    /\ i < MaxAttempts
    /\ LET r == load_data_from_bin(cache, ok, store) IN
       /\ results' = Append(results, r.count)
       /\ poll_obs' = Obs("poll", r, store)
       /\ IF Grew(r.count, initial_row_count)
          THEN /\ is_processing' = FALSE
               /\ cache' = cache_clear
               /\ shown' = shown \cup {"updated"}
               /\ watcher' = "Resolved"
               /\ pc' = "run"                       \* st.rerun()
               /\ baseline_obs' = NoObs
               /\ UNCHANGED i
          ELSE /\ cache' = Aged(r.cache, SleepSeconds)  \* time.sleep(5)
               /\ i' = i + 1
               /\ UNCHANGED << is_processing, shown, watcher, pc, baseline_obs >>
    /\ UNCHANGED << page, messages, upload_success, row_count, store,
                    reply, event, momVars >>

\* The exhausted loop without the final `is_processing = False`.
PollTimeout_KeepsProcessing(ok) ==
    /\ pc = "poll"
    /\ i = MaxAttempts
    /\ LET r == load_data_from_bin(cache, ok, store) IN
       /\ shown' = shown \cup {"warning"} \cup DashboardBody(r.count)
       /\ cache' = r.cache
    /\ watcher' = "TimedOut"
    /\ pc' = "idle"
    /\ event' = NoEvent
    /\ baseline_obs' = NoObs
    /\ UNCHANGED << page, messages, is_processing, upload_success, row_count, store,
                    reply, i, results, poll_obs, momVars >>

\* The loop is exhausted: the warning, and the rest of the Dashboard branch.
PollTimeout(ok) ==
    /\ pc = "poll"
    /\ i = MaxAttempts
    /\ LET r == load_data_from_bin(cache, ok, store) IN
       /\ shown' = shown \cup {"warning"} \cup DashboardBody(r.count)
       /\ cache' = r.cache
    /\ is_processing' = FALSE
    /\ watcher' = "TimedOut"
    /\ pc' = "idle"
    /\ event' = NoEvent
    /\ baseline_obs' = NoObs
    /\ UNCHANGED << page, messages, upload_success, row_count, store,
                    reply, i, results, poll_obs, momVars >>

\* The Refresh button of the Dashboard.
RefreshData ==
    /\ pc = "idle"
    /\ page = "Dashboard"
    /\ cache' = cache_clear
    /\ pc' = "run"                                  \* st.rerun()
    /\ event' = [NoEvent EXCEPT !.kind = "refresh", !.page = page]
    /\ ResetWatcher
    /\ UNCHANGED << sessionVars, store, shown, reply, baseline_obs, momVars >>

-----------------------------------------------------------------------------
(* The environment *)

\* The extraction workflow (or anything else) changes the remote store.
StoreChange(n) ==
    /\ n # store
    /\ store' = n
    /\ UNCHANGED << sessionVars, cache, pc, shown, reply,
                    baseline_obs, event, pollVars, momVars >>

\* Time passes while the page waits for the user, counted in sleep lengths:
\* the attempts of a polling run are SleepSeconds apart, so which of them a
\* cache entry still serves depends on its age in such steps only.
Tick(d) ==
    /\ pc = "idle"
    /\ cache.valid
    /\ cache' = Aged(cache, d * SleepSeconds)
    /\ UNCHANGED << sessionVars, store, pc, shown, reply,
                    baseline_obs, event, pollVars, momVars >>

-----------------------------------------------------------------------------
(* The chat session *)

\* Python values that end up as message content: a str, or None.
PyStr(text) == [t |-> "str", s |-> text, detail |-> ""]
PyNone      == [t |-> "None", s |-> "", detail |-> ""]

Greeting        == PyStr("Hy! I am FinAgent. Your Personal AI Powered Finance Manager. How can I help you today?")
NoMessageText   == PyStr("No message to send.")
NoOutputText    == PyStr("Sorry, I received a response but couldn't find the message.")
BadFormatText   == PyStr("Sorry, the backend returned an unexpected data format.")
\* f"Sorry, I couldn't connect to the bot backend. Error: {e}"
ConnectErrorText(e) == [t |-> "str", s |-> "Sorry, I couldn't connect to the bot backend. Error: ",
                        detail |-> e]

\* JSON values the webhook may answer with.  An element of a top-level array
\* is an object (with or without the key "output"), or something else.
OutputValues == {PyStr("hi"), PyStr(""), PyNone}
JItems == {[t |-> "dict", has_output |-> TRUE, output |-> v] : v \in OutputValues}
          \cup {[t |-> k, has_output |-> FALSE, output |-> PyNone] :
                   k \in {"dict", "str", "num", "null", "list"}}
JBodies == {[t |-> "list", items |-> << >>]}
           \cup {[t |-> "list", items |-> << it >>] : it \in JItems}
           \cup {[t |-> "list", items |-> << it, [t |-> "num", has_output |-> FALSE, output |-> PyNone] >>] :
                    it \in {[t |-> "dict", has_output |-> TRUE, output |-> PyStr("hi")]}}
           \cup {[t |-> k, items |-> << >>] : k \in {"dict", "str", "null"}}

\* requests.post / raise_for_status / response.json() raise, or a JSON value
\* is decoded from a successful response.
ChatResponses == {[raised |-> TRUE, err |-> e, body |-> [t |-> "null", items |-> << >>]] :
                     e \in {"ConnectionError", "HTTPError", "JSONDecodeError"}}
                 \cup {[raised |-> FALSE, err |-> "", body |-> b] : b \in JBodies}

\* first_item.get("output", default): only a dict has .get
dict_get_output(item, default) ==
    IF item.has_output THEN item.output ELSE default

get_chat_response_from_n8n(history, resp) ==
    IF history = << >> THEN NoMessageText
    ELSE IF resp.raised THEN ConnectErrorText(resp.err)
    ELSE IF resp.body.t = "list" /\ resp.body.items # << >>
         THEN LET first_item == resp.body.items[1] IN
              IF first_item.t = "dict"
              THEN dict_get_output(first_item, NoOutputText)
              ELSE ConnectErrorText("AttributeError")
         ELSE BadFormatText

UserInputs == {"q1", "q2"}

NoReply == [value |-> PyNone, input |-> "", resp |-> [raised |-> FALSE, err |-> "", body |-> [t |-> "null", items |-> << >>]]]

\* The chat branch appending the assistant's turn only for a real reply.
ChatSend_DropsFallback(user_input, resp) ==
    /\ pc = "idle"
    /\ page = "Chat"
    /\ Len(messages) < MaxMsgs
    /\ LET with_user == Append(messages, [role |-> "user", content |-> PyStr(user_input)])
           assistant_response == get_chat_response_from_n8n(with_user, resp)
       IN /\ messages' = IF assistant_response \in {BadFormatText, NoOutputText}
                         THEN with_user
                         ELSE Append(with_user, [role |-> "assistant", content |-> assistant_response])
          /\ reply' = [value |-> assistant_response, input |-> user_input, resp |-> resp]
    /\ shown' = {"chat_history", "user_message"}
    /\ event' = [NoEvent EXCEPT !.kind = "chat", !.page = page]
    /\ pc' = "run"
    /\ ResetWatcher
    /\ UNCHANGED << page, is_processing, upload_success, row_count, cache, store,
                    baseline_obs, momVars >>

\* A message is submitted in the chat input: the Chat branch of the script.
ChatSend(user_input, resp) ==
    /\ pc = "idle"
    /\ page = "Chat"
    /\ Len(messages) < MaxMsgs
    /\ LET with_user == Append(messages, [role |-> "user", content |-> PyStr(user_input)])
           assistant_response == get_chat_response_from_n8n(with_user, resp)
       IN /\ messages' = Append(with_user, [role |-> "assistant", content |-> assistant_response])
          /\ reply' = [value |-> assistant_response, input |-> user_input, resp |-> resp]
    /\ shown' = {"chat_history", "user_message"}
    /\ event' = [NoEvent EXCEPT !.kind = "chat", !.page = page]
    /\ pc' = "run"                                  \* st.rerun()
    /\ ResetWatcher
    /\ UNCHANGED << page, is_processing, upload_success, row_count, cache, store,
                    baseline_obs, momVars >>

-----------------------------------------------------------------------------
(* The dashboard renderer: section 6, Month-over-Month comparison.         *)
(* A transaction is its year, month and amount (the category plays no part *)
(* in the totals).  A percentage is kept exact as a fraction num/den.      *)

MaxTxns == 3         \* transactions in the data set

Years   == {2024, 2025}
Months  == {1, 2, 12}
Amounts == {-100, 0, 100}
Txns    == [year : Years, month : Months, amount : Amounts]

\* What the user may pick in the three select boxes; 0 stands for leaving
\* the box at its default.
YearChoices  == Years \cup {0}
MonthChoices == Months \cup {0}

RECURSIVE SumAmounts(_)
SumAmounts(S) ==
    IF S = {} THEN 0
    ELSE LET t == CHOOSE x \in S : TRUE IN t.amount + SumAmounts(S \ {t})

SetMax(S) == CHOOSE x \in S : \A y \in S : y <= x

\* A monthly period (Date.dt.to_period('M')) as a number that sorts like it.
Period(t)       == t.year * 12 + (t.month - 1)
PeriodYear(p)   == p \div 12
PeriodMonth(p)  == (p % 12) + 1

Frac(n, d) == [num |-> n, den |-> d]
FracEq(a, b) == a.num * b.den = b.num * a.den

\* "Calculate percentage difference"
pct_change(total_month1, total_month2) ==
    IF total_month1 > 0
    THEN Frac((total_month2 - total_month1) * 100, total_month1)
    ELSE IF total_month2 > 0 THEN Frac(100, 1) ELSE Frac(0, 1)

MomResult(status, y, m1, m2, t1, t2, pct) ==
    [status |-> status, year |-> y, month1 |-> m1, month2 |-> m2,
     total1 |-> t1, total2 |-> t2, pct |-> pct]
NoMom == MomResult("none", 0, 0, 0, 0, 0, Frac(0, 1))

\* The whole section for the data set df and the user's picks.
month_over_month(df, pick_year, pick_month1, pick_month2) ==
    LET available_years == {t.year : t \in df}
        unique_periods  == {Period(t) : t \in df}
    IN
    IF available_years = {} THEN MomResult("no_data", 0, 0, 0, 0, 0, Frac(0, 1))
    ELSE IF Cardinality(unique_periods) < 2
    THEN MomResult("not_enough", 0, 0, 0, 0, 0, Frac(0, 1))
    ELSE
    LET last_period   == SetMax(unique_periods)
        prev_period   == SetMax(unique_periods \ {last_period})
        default_year  == PeriodYear(last_period)
        selected_year == IF pick_year \in available_years THEN pick_year ELSE default_year
        year_data     == {t \in df : t.year = selected_year}
        available_months == {t.month : t \in year_data}
    IN
    IF Cardinality(available_months) < 2
    THEN MomResult("not_enough_in_year", selected_year, 0, 0, 0, 0, Frac(0, 1))
    ELSE
    LET both_in_year   == PeriodYear(prev_period) = selected_year
                          /\ PeriodYear(last_period) = selected_year
        default_month1 == IF both_in_year THEN PeriodMonth(prev_period)
                          ELSE SetMax(available_months \ {SetMax(available_months)})
        default_month2 == IF both_in_year THEN PeriodMonth(last_period)
                          ELSE SetMax(available_months)
        month1_num  == IF pick_month1 = 0 THEN default_month1 ELSE pick_month1
        month2_num  == IF pick_month2 = 0 THEN default_month2 ELSE pick_month2
        month1_data == {t \in year_data : t.month = month1_num}
        month2_data == {t \in year_data : t.month = month2_num}
        total_month1 == SumAmounts(month1_data)
        total_month2 == SumAmounts(month2_data)
    IN
    IF month1_data # {} /\ month2_data # {}
    THEN MomResult("metric", selected_year, month1_num, month2_num,
                   total_month1, total_month2, pct_change(total_month1, total_month2))
    ELSE MomResult("no_summary", selected_year, month1_num, month2_num, 0, 0, Frac(0, 1))

\* The remote store comes to hold one more transaction.
AddTransaction(t) ==
    /\ Cardinality(df_mom) < MaxTxns
    /\ t \notin df_mom
    /\ df_mom' = df_mom \cup {t}
    /\ mom' = NoMom
    /\ mom_defaults' = FALSE
    /\ UNCHANGED << sessionVars, cache, store, pc, shown, reply,
                    baseline_obs, event, pollVars >>

\* The section is rendered for the current data and picks.
RenderMonthOverMonth(pick_year, pick_month1, pick_month2) ==
    /\ mom' = month_over_month(df_mom, pick_year, pick_month1, pick_month2)
    /\ mom_defaults' = (pick_year = 0 /\ pick_month1 = 0 /\ pick_month2 = 0)
    /\ UNCHANGED << sessionVars, cache, store, pc, shown, reply,
                    baseline_obs, event, pollVars, df_mom >>

-----------------------------------------------------------------------------
(* Specifications *)

Init ==
    /\ page = "Chat"
    /\ messages = << [role |-> "assistant", content |-> Greeting] >>
    /\ is_processing = FALSE
    /\ upload_success = "unset"
    /\ row_count = NoRowCount
    /\ cache = EmptyCache
    /\ store \in 0..MaxStore
    /\ pc = "run"
    /\ i = 0
    /\ shown = {}
    /\ watcher = "Idle"
    /\ results = << >>
    /\ poll_obs = NoObs
    /\ baseline_obs = NoObs
    /\ event = NoEvent
    /\ reply = NoReply
    /\ df_mom = {}
    /\ mom = NoMom
    /\ mom_defaults = FALSE

\* Upload, polling and navigation.
Next ==
    \/ \E file \in BOOLEAN, resp \in UploadOutcomes, ok \in BOOLEAN :
          handle_file_upload(file, resp, ok)
    \/ \E p \in {"Chat", "Dashboard"} : page_select_callback(p)
    \/ RunChat
    \/ \E ok \in BOOLEAN : RunDashboard(ok)
    \/ \E ok \in BOOLEAN : PollAttempt(ok)
    \/ \E ok \in BOOLEAN : PollTimeout(ok)
    \/ RefreshData
    \/ \E n \in 0..MaxStore : StoreChange(n)
    \/ \E d \in 1..MaxTick : Tick(d)

Spec == Init /\ [][Next]_vars

\* A script run that has started goes on: the script thread is never
\* starved, and time.sleep returns.
FairSpec ==
    /\ Spec
    /\ WF_vars(RunChat)
    /\ WF_vars(\E ok \in BOOLEAN : RunDashboard(ok))
    /\ WF_vars(\E ok \in BOOLEAN : PollAttempt(ok))
    /\ WF_vars(\E ok \in BOOLEAN : PollTimeout(ok))

\* The chat tab.
NextChat ==
    \/ \E user_input \in UserInputs, resp \in ChatResponses : ChatSend(user_input, resp)
    \/ RunChat

SpecChat == Init /\ [][NextChat]_vars

\* The month-over-month section over every small data set.
NextMom ==
    \/ \E t \in Txns : AddTransaction(t)
    \/ \E y \in YearChoices, m1 \in MonthChoices, m2 \in MonthChoices :
          RenderMonthOverMonth(y, m1, m2)

SpecMom == Init /\ [][NextMom]_vars

-----------------------------------------------------------------------------
(* Properties *)

AllAtMost(seq, n, b) == \A k \in 1..n : seq[k] <= b

\* C1: every polling attempt bypasses the cache, so the count it compares
\* with the baseline is the remote store's count at the time of the attempt
\* (or the empty result of a fetch that failed then), never a cached one.
C1_EveryAttemptFetchesFresh ==
    poll_obs.by = "poll" =>
        /\ ~poll_obs.hit
        /\ poll_obs.ok => poll_obs.count = poll_obs.store

\* C2: the watcher resolves at the first attempt whose result exceeds the
\* baseline: while it polls no earlier result exceeded it; when it has
\* resolved, the last result (attempt 1..10) is the only one above the
\* baseline, the result did not come from a failed fetch, no attempt
\* follows, is_processing is cleared and success is displayed.
C2_ResolvesAtFirstGrowth ==
    /\ watcher = "Polling" =>
          /\ pc = "poll"
          /\ Len(results) = i
          /\ AllAtMost(results, Len(results), initial_row_count)
          /\ is_processing
    /\ watcher = "Resolved" =>
          /\ Len(results) \in 1..10
          /\ Len(results) = i + 1
          /\ results[Len(results)] > initial_row_count
          /\ AllAtMost(results, Len(results) - 1, initial_row_count)
          /\ poll_obs.ok
          /\ pc = "run"
          /\ ~is_processing
          /\ "updated" \in shown

\* C2 witness: a baseline b and the results b, b, b, b+1: resolved on the
\* fourth attempt.
C2_ResolvedOnFourthAttempt ==
    /\ watcher = "Resolved"
    /\ row_count >= 1
    /\ results = << row_count, row_count, row_count, row_count + 1 >>
    /\ ~is_processing

\* The safety part of C3: never more than ten attempts; a timed-out run made
\* exactly ten, none above the baseline, and cleared is_processing with the
\* warning displayed; a finished run without growth is a timed-out one.
C3_AttemptsBounded ==
    /\ pc = "poll" => i <= 10 /\ Len(results) = i
    /\ watcher = "TimedOut" =>
          /\ Len(results) = 10
          /\ AllAtMost(results, 10, initial_row_count)
          /\ pc = "idle"
          /\ ~is_processing
          /\ "warning" \in shown
          /\ "updated" \notin shown
    /\ (watcher \in {"Resolved", "TimedOut"}
        /\ AllAtMost(results, Len(results), initial_row_count)) => watcher = "TimedOut"

\* C3: a polling run in which no result exceeds the baseline makes exactly
\* ten attempts and ends timed out, is_processing cleared and the warning
\* displayed; and every polling run ends, resolved or timed out.
C3_TimesOutAfterTenAttempts ==
    /\ []C3_AttemptsBounded
    /\ (watcher = "Polling") ~> (watcher \in {"Resolved", "TimedOut"})

\* C3 witness: baseline b and ten results b.
C3_TimedOutOnConstantResults ==
    /\ watcher = "TimedOut"
    /\ row_count >= 1
    /\ results = [k \in 1..10 |-> row_count]
    /\ "warning" \in shown

\* C4: an accepted upload sets is_processing and takes its baseline from a
\* fetch that did not come out of the cache: the remote store's count at
\* acceptance time.
C4_BaselineFromFreshFetch ==
    (pc = "run" /\ event.kind = "upload" /\ event.accepted) =>
        /\ is_processing
        /\ ~baseline_obs.hit
        /\ baseline_obs.ok => row_count = baseline_obs.store

\* The service answered with a success status.
Is2xx(resp) == ~resp.raised /\ resp.status_code >= 200 /\ resp.status_code < 300

\* The service rejected the upload, or the request failed in transport.
Rejected(resp) == resp.raised \/ ~Is2xx(resp)

\* C5: an upload the service rejects (a non-2xx status) or that fails in
\* transport returns false and leaves is_processing, the baseline row count
\* and the page as they were; no baseline fetch is made.
C5_RejectedUploadArmsNothing ==
    [][(event'.kind = "upload" /\ event'.file /\ pc = "idle" /\ pc' = "run"
        /\ Rejected(event'.resp))
       => /\ ~event'.accepted
          /\ is_processing' = is_processing
          /\ row_count' = row_count
          /\ page' = page
          /\ cache' = cache
          /\ baseline_obs' = baseline_obs]_vars

\* C5 witness: an upload answered with HTTP 500 has been handled.
C5_UploadRejectedWith500 ==
    /\ pc = "run"
    /\ event.kind = "upload" /\ event.file
    /\ ~event.resp.raised /\ event.resp.status_code = 500
    /\ ~event.accepted
    /\ ~is_processing
    /\ upload_success = "False"

\* C6: the pass that follows a rejected or transport-failed upload displays
\* the failure message, whichever page the upload was made on.
C6_FailureShownInNextPass ==
    [][(pc = "run" /\ pc' = "idle" /\ event.kind = "upload" /\ event.file
        /\ Rejected(event.resp))
       => "upload_failed" \in shown']_vars

\* C7: submit returns true exactly when the service answers with a 2xx
\* status, false for every other status and for a transport failure.
C7_SubmitTrueIffHttp2xx ==
    (event.kind = "upload" /\ event.file) => (event.accepted <=> Is2xx(event.resp))

\* C8: a chat send, whatever the backend answers, appends exactly the user
\* message and then the text send returned; the history changes in no other
\* way and no earlier entry is touched.
C8_SendAppendsUserThenAssistant ==
    [][/\ (pc = "idle" /\ event'.kind = "chat") => messages' # messages
       /\ messages' # messages =>
            /\ Len(messages') = Len(messages) + 2
            /\ SubSeq(messages', 1, Len(messages)) = messages
            /\ messages'[Len(messages) + 1] = [role |-> "user", content |-> PyStr(reply'.input)]
            /\ messages'[Len(messages) + 2] = [role |-> "assistant", content |-> reply'.value]
            /\ reply'.value = get_chat_response_from_n8n(SubSeq(messages', 1, Len(messages) + 1),
                                                         reply'.resp)]_vars

\* C8 witness: the webhook answered [] to the second message; the fallback
\* text is the fifth entry of the history.
C8_FallbackAppended ==
    /\ Len(messages) = 5
    /\ reply.resp.body = [t |-> "list", items |-> << >>]
    /\ messages[4] = [role |-> "user", content |-> PyStr(reply.input)]
    /\ messages[5] = [role |-> "assistant", content |-> BadFormatText]

\* The array-with-an-object-holding-a-non-empty-output shape.
HasReplyText(body) ==
    /\ body.t = "list" /\ body.items # << >>
    /\ body.items[1].t = "dict" /\ body.items[1].has_output
    /\ body.items[1].output.t = "str" /\ body.items[1].output.s # ""

\* C9: for a response delivered with HTTP success, send returns the output
\* text of the expected shape, and for every other shape and for an empty
\* or null output one of the fixed fallback strings.
C9_ReplyTextOrFixedFallback ==
    (reply.input # "" /\ ~reply.resp.raised) =>
        IF HasReplyText(reply.resp.body)
        THEN reply.value = reply.resp.body.items[1].output
        ELSE reply.value \in {BadFormatText, NoOutputText}

\* C10: the displayed change is 100 for prior = 0 < current, 0 for
\* prior = current = 0, and (current - prior) / prior * 100 for every
\* non-zero prior, negative ones included.
C10_PercentChangePolicy ==
    mom.status = "metric" =>
        /\ mom.pct.den # 0
        /\ (mom.total1 = 0 /\ mom.total2 > 0) => FracEq(mom.pct, Frac(100, 1))
        /\ (mom.total1 = 0 /\ mom.total2 = 0) => FracEq(mom.pct, Frac(0, 1))
        /\ mom.total1 # 0 =>
              FracEq(mom.pct, Frac((mom.total2 - mom.total1) * 100, mom.total1))


\* The monthly periods present in the data, and the period of a month of a year.
PeriodsOf(df) == {Period(t) : t \in df}
PeriodOf(y, m) == y * 12 + (m - 1)

\* C11: with the select boxes left at their defaults, data holding at least
\* two distinct calendar months gets the comparison, made between the two
\* most recent distinct months of the whole data set, also when they lie in
\* different years; data holding fewer gets the explicit message instead.
C11_DefaultComparesTwoLatestMonths ==
    (mom_defaults /\ mom.status # "none") =>
        IF Cardinality(PeriodsOf(df_mom)) >= 2
        THEN LET last == SetMax(PeriodsOf(df_mom))
                 prev == SetMax(PeriodsOf(df_mom) \ {last})
             IN /\ mom.status = "metric"
                /\ PeriodOf(mom.year, mom.month2) = last
                /\ (PeriodOf(mom.year, mom.month1) = prev
                    \/ PeriodOf(mom.year - 1, mom.month1) = prev)
        ELSE mom.status \in {"no_data", "not_enough"}


\* C12: whenever is_processing is true the stored baseline is the count a
\* successful fetch made for that upload returned: not the default of an
\* absent row_count, and not the empty result of a failed fetch.
C12_BaselineFromSuccessfulFetch ==
    is_processing =>
        /\ row_count # NoRowCount
        /\ baseline_obs.by = "upload"
        /\ row_count = baseline_obs.count
        /\ baseline_obs.ok


\* While an upload is being processed the Dashboard is the page and a script
\* run is due or under way; no pass ends with is_processing still true.
C13_MarkerOnlyDuringDashboardPass ==
    /\ is_processing => (page = "Dashboard" /\ pc \in {"run", "poll"})
    /\ pc = "idle" => ~is_processing

\* is_processing is set by an accepted upload only, which switches to the
\* Dashboard; the script run that follows enters the polling loop; and
\* is_processing is cleared only by the loop resolving or timing out.
C13_MarkerSteps ==
    /\ (~is_processing /\ is_processing') =>
          (event'.kind = "upload" /\ event'.accepted /\ page' = "Dashboard" /\ pc' = "run")
    /\ (is_processing /\ pc = "run" /\ pc' # "run") =>
          (pc' = "poll" /\ watcher' = "Polling" /\ is_processing')
    /\ (is_processing /\ ~is_processing') =>
          (watcher = "Polling" /\ watcher' \in {"Resolved", "TimedOut"})

\* C13: every accepted upload leads to is_processing being cleared: it is
\* set together with the switch to the Dashboard, the next pass runs the
\* polling loop, the loop alone clears it (resolved or timed out), no pass
\* ends with it still true, and once true it becomes false again.
C13_AcceptedUploadEndsCleared ==
    /\ []C13_MarkerOnlyDuringDashboardPass
    /\ [][C13_MarkerSteps]_vars
    /\ is_processing ~> ~is_processing

\* C13 witness: an upload made on the Chat page was accepted, the page was
\* switched and the polling loop of the next pass is running.
C13_PollingAfterUploadFromChat ==
    /\ is_processing
    /\ event.kind = "upload" /\ event.accepted /\ event.page = "Chat"
    /\ page = "Dashboard"
    /\ pc = "poll" /\ i > 0

=============================================================================
